---- MODULE Spec2Model ----
(***************************************************************************)
(* Model of project/task_5/hash.py: HashTable, an open-addressing table    *)
(* with double hashing and load-factor triggered growth.                   *)
(*                                                                         *)
(* A table object is the record [size, table, count]; `table` is the list  *)
(* of slots, a slot being <<>> (Python None) or the pair <<key, value>>.   *)
(* Python list index i is position i + 1 of the TLA+ sequence.             *)
(***************************************************************************)
EXTENDS Integers, Sequences, FiniteSets, TLC

\* single-owner use: the object's fields, the last call, the keys ever set
VARIABLES _size, _table, _count, last, ever_set

\* shared use: what the manager holds (its lists, the counter, the lock),
\* every context's own fields of the object, and every context's position
VARIABLES shared_self, heap, m_count, m_lock, p_size, p_table,
          pc, call, attempt, old_items, ret

\* shared use, reads made without the lock: the list an iteration copies,
\* the index it has reached, the keys it has copied and the key sets the
\* table has held since it began; the counter as it was when the _rehash in
\* progress reset it
VARIABLES it_list, it_pos, snapshot, instants, old_count

\* shared use, the scenario: whether every context calls set, get and
\* delete with its own keys only, and for every key the value of the last
\* set that placed it ("absent" once a delete has removed it)
VARIABLES disjoint, expected

\* project/task_3/cache_decorator.py, one decorated function: the size
\* given to decorator_cache, the OrderedDict of the wrapper (oldest entry
\* first), the last call of the wrapper, and for the properties the keys in
\* the order of their last use and the last result computed for every key
VARIABLES size, cache, wcall, recent, computed

\* project/task_4/game.py, one Game: its round fields, the number of cards
\* left in its deck, the numbers of human players and of bots, the position
\* of start_game, and for the properties what has kept the game from
\* running its rounds (the deck, the players, the human's answer)
VARIABLES max_rounds, current_round, game_over, deck, players, bots, game_pc, hindered

\* project/task_4/players.py and game.py, the chips of one participant of a
\* game: who makes its decisions (the human at the console or the strategy
\* object of a bot), its chips and its bet, the rounds it has played, and
\* the position in a round (bets are placed, then the round is played out)
VARIABLES strategy, chips, bet, bet_round, bet_pc

ownerVars == <<_size, _table, _count, last, ever_set>>

cacheVars == <<size, cache, wcall, recent, computed>>

gameVars == <<max_rounds, current_round, game_over, deck, players, bots, game_pc, hindered>>

betVars == <<strategy, chips, bet, bet_round, bet_pc>>

otherVars == <<cacheVars, gameVars, betVars>>

obsVars == <<it_list, it_pos, snapshot, instants, old_count>>

scenarioVars == <<disjoint, expected>>

sharedVars == <<shared_self, heap, m_count, m_lock, p_size, p_table,
                pc, call, attempt, old_items, ret, obsVars, scenarioVars>>

vars == <<ownerVars, sharedVars, otherVars>>

---------------------------------------------------------------------------
(* Inputs and bounds *)

\* keys handed to the table: Python ints whose probe sequences meet.
\* At size 4 key 13 probes only slots 1, 3 and key 46 only slots 2, 0; at
\* size 10 key 13 probes only slots 3, 8; at size 21 keys 6 and 13 probe
\* only slots 6, 13, 20.
Keys == {6, 13, 46}

\* the value None, also what _search returns for a miss
None == "None"

\* values handed to the table
Values == {"v1", None}

\* sizes the table is constructed with
InitialSizes == {3, 4, 10}

\* set is not called when it would grow the table beyond this size
MaxSize == 21

\* set is not called when it would leave more than this many entries
MaxCount == 4

\* keys, values and sizes of the dense table
DenseKeys == {4, 9, 74, 79, 1, 2}

DenseValues == {"v1"}

DenseInitialSizes == {7}

\* on the dense table set is not called when it would grow the table
\* beyond this size
MaxDenseSize == 15

\* the small sizes a table is constructed with, and the keys and values
\* handed to it
SmallSizes == {0, 1, 2, -3}

SmallKeys == {6, 13}

SmallValues == {"v1"}

\* the execution contexts of shared use
Ctx == {1, 2}

\* keys, values and initial sizes of shared use
SharedKeys == {6, 13}

SharedValues == {"v1", None}

SharedInitialSizes == {2}

\* in shared use set is called only while the caller's size is at most this
MaxSharedSize == 2

\* the manager's lists
ListIds == 1..3

\* the keys of a context when the contexts work on disjoint key sets
OwnKeys(c) == IF c = 1 THEN {6} ELSE {13}

---------------------------------------------------------------------------
(* Pure helpers *)

Min(S) == CHOOSE x \in S : \A y \in S : x <= y

\* hash() of a Python int of small magnitude: the int itself, except -1
Hash(key) == IF key = -1 THEN -2 ELSE key

EmptyTable(n) == [i \in 1..n |-> <<>>]

\* number of slots that are not None
Occupied(table) == Cardinality({i \in 1..Len(table) : table[i] # <<>>})

---------------------------------------------------------------------------
(* HashTable methods, as functions of the object `self` *)

_hash1(self, key) == Hash(key) % self.size

_hash2(self, key) == 1 + (Hash(key) % (self.size - 1))

\* the list of indices generated, in order
_probe_sequence(self, key) ==
    LET h1 == _hash1(self, key)
        h2 == _hash2(self, key)
    IN  [n \in 1..self.size |-> (h1 + (n - 1) * h2) % self.size]

\* _add whose update branch returns without storing the value
_add_no_update(self, key, value) ==
    LET seq  == _probe_sequence(self, key)
        stop == {n \in 1..Len(seq) :
                    \/ self.table[seq[n] + 1] = <<>>
                    \/ self.table[seq[n] + 1][1] = key}
    IN  IF stop = {}
        THEN [self |-> self, ret |-> FALSE]
        ELSE LET index == seq[Min(stop)]
             IN  IF self.table[index + 1] = <<>>
                 THEN [self |-> [self EXCEPT !.table[index + 1] = <<key, value>>,
                                             !.count = @ + 1],
                       ret |-> TRUE]
                 ELSE [self |-> self, ret |-> TRUE]

_add(self, key, value) ==
    LET seq  == _probe_sequence(self, key)
        stop == {n \in 1..Len(seq) :
                    \/ self.table[seq[n] + 1] = <<>>
                    \/ self.table[seq[n] + 1][1] = key}
    IN  IF stop = {}
        THEN [self |-> self, ret |-> FALSE]
        ELSE LET index == seq[Min(stop)]
             IN  IF self.table[index + 1] = <<>>
                 THEN [self |-> [self EXCEPT !.table[index + 1] = <<key, value>>,
                                             !.count = @ + 1],
                       ret |-> TRUE]
                 ELSE [self |-> [self EXCEPT !.table[index + 1][2] = value],
                       ret |-> TRUE]

\* _search that takes the first occupied slot without comparing keys
_search_no_key_check(self, key) ==
    LET seq  == _probe_sequence(self, key)
        hits == {n \in 1..Len(seq) : self.table[seq[n] + 1] # <<>>}
    IN  IF hits = {} THEN None ELSE self.table[seq[Min(hits)] + 1][2]

\* _search that would stop at the first None slot of the probe sequence
_search_stop_at_empty(self, key) ==
    LET seq   == _probe_sequence(self, key)
        stop  == {n \in 1..Len(seq) : self.table[seq[n] + 1] = <<>>}
        limit == IF stop = {} THEN Len(seq) ELSE Min(stop)
        hits  == {n \in 1..limit :
                     /\ self.table[seq[n] + 1] # <<>>
                     /\ self.table[seq[n] + 1][1] = key}
    IN  IF hits = {} THEN None ELSE self.table[seq[Min(hits)] + 1][2]

_search(self, key) ==
    LET seq  == _probe_sequence(self, key)
        hits == {n \in 1..Len(seq) :
                    /\ self.table[seq[n] + 1] # <<>>
                    /\ self.table[seq[n] + 1][1] = key}
    IN  IF hits = {} THEN None ELSE self.table[seq[Min(hits)] + 1][2]

\* _remove that empties the first occupied slot without comparing keys
_remove_no_key_check(self, key) ==
    LET seq  == _probe_sequence(self, key)
        hits == {n \in 1..Len(seq) : self.table[seq[n] + 1] # <<>>}
    IN  IF hits = {}
        THEN [self |-> self, ret |-> FALSE]
        ELSE [self |-> [self EXCEPT !.table[seq[Min(hits)] + 1] = <<>>,
                                    !.count = @ - 1],
              ret |-> TRUE]

_remove(self, key) ==
    LET seq  == _probe_sequence(self, key)
        hits == {n \in 1..Len(seq) :
                    /\ self.table[seq[n] + 1] # <<>>
                    /\ self.table[seq[n] + 1][1] = key}
    IN  IF hits = {}
        THEN [self |-> self, ret |-> FALSE]
        ELSE [self |-> [self EXCEPT !.table[seq[Min(hits)] + 1] = <<>>,
                                    !.count = @ - 1],
              ret |-> TRUE]

\* old_items: the pairs of the occupied slots, in slot order
RECURSIVE OldItems(_, _)
OldItems(table, i) ==
    IF i > Len(table) THEN <<>>
    ELSE IF table[i] # <<>> THEN <<table[i]>> \o OldItems(table, i + 1)
    ELSE OldItems(table, i + 1)

\* one pass of the reinsertion loop: first None slot of the probe sequence,
\* no slot when there is none
Reinsert(self, item) ==
    LET seq  == _probe_sequence(self, item[1])
        free == {n \in 1..Len(seq) : self.table[seq[n] + 1] = <<>>}
    IN  IF free = {} THEN self
        ELSE [self EXCEPT !.table[seq[Min(free)] + 1] = <<item[1], item[2]>>,
                          !.count = @ + 1]

RECURSIVE ReinsertAll(_, _, _)
ReinsertAll(self, items, i) ==
    IF i > Len(items) THEN self
    ELSE ReinsertAll(Reinsert(self, items[i]), items, i + 1)

\* a growth that would leave every item in the slot it had
_rehash_keep_slots(self) ==
    LET new_size == self.size * 2 + 1
    IN  [size |-> new_size, table |-> self.table \o EmptyTable(new_size - self.size),
         count |-> self.count]

_rehash(self) ==
    LET items    == OldItems(self.table, 1)
        new_size == self.size * 2 + 1
    IN  ReinsertAll([size |-> new_size, table |-> EmptyTable(new_size), count |-> 0],
                    items, 1)

\* a threshold of 1.0 instead of 0.75
LoadFactorReached_full(self) == self.count >= self.size

\* self._count.value >= self._size * 0.75, in integers
LoadFactorReached(self) == 4 * self.count >= 3 * self.size

\* the table as it is when __setitem__ calls _add the first time
BeforeAdd(self) == IF LoadFactorReached(self) THEN _rehash(self) ELSE self

__setitem__(self, key, value) ==
    LET s1 == IF LoadFactorReached(self) THEN _rehash(self) ELSE self
        n1 == IF LoadFactorReached(self) THEN 1 ELSE 0
        a1 == _add(s1, key, value)
    IN  IF a1.ret
        THEN [self |-> a1.self, exc |-> None, rehashes |-> n1]
        ELSE LET s2 == _rehash(a1.self)
                 a2 == _add(s2, key, value)
             IN  [self |-> a2.self,
                  exc |-> IF a2.ret THEN None ELSE "RuntimeError",
                  rehashes |-> n1 + 1]

__getitem__(self, key) ==
    LET value == _search(self, key)
    IN  IF value = None THEN [ret |-> None, exc |-> "KeyError"]
        ELSE [ret |-> value, exc |-> None]

__delitem__(self, key) ==
    LET r == _remove(self, key)
    IN  [self |-> r.self, exc |-> IF r.ret THEN None ELSE "KeyError"]

__contains__(self, key) == _search(self, key) # None

__iter__(self) ==
    LET items == OldItems(self.table, 1)
    IN  [n \in 1..Len(items) |-> items[n][1]]

__len__(self) == self.count

add(self, key, value) == __setitem__(self, key, value)

find(self, key) == _search(self, key)

remove(self, key) == _remove(self, key)

---------------------------------------------------------------------------
(* Single-owner use: one caller, every call runs to completion *)

Self == [size |-> _size, table |-> _table, count |-> _count]

\* the keys some slot holds
Held(self) == {self.table[i][1] : i \in {j \in 1..Len(self.table) : self.table[j] # <<>>}}

NoCall == [op |-> "none", key |-> 0, val |-> None, entry_size |-> 0, entry_reached |-> FALSE]

Call(op, key, value, exc, rehashes) ==
    [op |-> op, key |-> key, val |-> value, exc |-> exc, rehashes |-> rehashes,
     len0 |-> _count, held0 |-> key \in Held(Self)]

Store(self) ==
    /\ _size' = self.size
    /\ _table' = self.table
    /\ _count' = self.count

\* no iteration and no _rehash in progress
NoReads ==
    /\ it_list = [c \in Ctx |-> 0]
    /\ it_pos = [c \in Ctx |-> 0]
    /\ snapshot = [c \in Ctx |-> <<>>]
    /\ instants = [c \in Ctx |-> {}]
    /\ old_count = [c \in Ctx |-> 0]

\* no key placed or removed yet
NoneExpected == expected = [k \in SharedKeys |-> "absent"]

\* no shared use
\* no decorated function
CacheIdle ==
    /\ size = 0
    /\ cache = <<>>
    /\ wcall = [key |-> <<>>, invoked |-> FALSE, ret |-> None, exc |-> None]
    /\ recent = <<>>
    /\ computed = <<>>

\* no Game
GameIdle ==
    /\ max_rounds = 0
    /\ current_round = 0
    /\ game_over = FALSE
    /\ deck = 0
    /\ players = 0
    /\ bots = 0
    /\ game_pc = "none"
    /\ hindered = {}

\* no participant's chips are followed
BetIdle ==
    /\ strategy = "none"
    /\ chips = 0
    /\ bet = 0
    /\ bet_round = 0
    /\ bet_pc = "none"

OtherIdle == CacheIdle /\ GameIdle /\ BetIdle

SharedIdle ==
    /\ shared_self = TRUE
    /\ disjoint = FALSE
    /\ heap = [l \in ListIds |-> <<>>]
    /\ m_count = 0
    /\ m_lock = 0
    /\ p_size = [c \in Ctx |-> 0]
    /\ p_table = [c \in Ctx |-> 1]
    /\ pc = [c \in Ctx |-> "idle"]
    /\ call = [c \in Ctx |-> NoCall]
    /\ attempt = [c \in Ctx |-> 0]
    /\ old_items = [c \in Ctx |-> <<>>]
    /\ ret = [c \in Ctx |-> None]
    /\ NoReads
    /\ NoneExpected

Init ==
    /\ _size \in InitialSizes
    /\ _table = EmptyTable(_size)
    /\ _count = 0
    /\ last = [op |-> "init", key |-> 0, val |-> None, exc |-> None,
               rehashes |-> 0, len0 |-> 0, held0 |-> FALSE]
    /\ ever_set = {}
    /\ SharedIdle
    /\ OtherIdle

SetItem(key, value) ==
    LET r == __setitem__(Self, key, value)
    IN  /\ r.self.size <= MaxSize
        /\ r.self.count <= MaxCount
        /\ Store(r.self)
        /\ last' = Call("set", key, value, r.exc, r.rehashes)
        /\ ever_set' = ever_set \cup {key}
        /\ UNCHANGED <<sharedVars, otherVars>>

\* the calls that only read leave the object as it is
GetItem(key) ==
    /\ __getitem__(Self, key).exc \in {None, "KeyError"}
    /\ UNCHANGED vars

DelItem(key) ==
    LET r == __delitem__(Self, key)
    IN  /\ Store(r.self)
        /\ last' = Call("del", key, None, r.exc, 0)
        /\ UNCHANGED <<ever_set, sharedVars, otherVars>>

\* add(key, value) is self[key] = value
Add(key, value) == SetItem(key, value)

\* remove(key): _remove without the KeyError of __delitem__
Remove(key) ==
    LET r == remove(Self, key)
    IN  /\ Store(r.self)
        /\ last' = Call("remove", key, None, None, 0)
        /\ UNCHANGED <<ever_set, sharedVars, otherVars>>

Contains(key) ==
    /\ __contains__(Self, key) \in BOOLEAN
    /\ UNCHANGED vars

Find(key) ==
    /\ find(Self, key) \in Values
    /\ UNCHANGED vars

LenCall ==
    /\ __len__(Self) \in Int
    /\ UNCHANGED vars

IterCall ==
    /\ Len(__iter__(Self)) = Occupied(_table)
    /\ UNCHANGED vars

Next ==
    \/ \E key \in Keys, value \in Values : SetItem(key, value)
    \/ \E key \in Keys : GetItem(key)
    \/ \E key \in Keys : DelItem(key)
    \/ \E key \in Keys : Contains(key)
    \/ \E key \in Keys : Find(key)
    \/ LenCall
    \/ IterCall
    \/ \E key \in Keys, value \in Values : Add(key, value)
    \/ \E key \in Keys : Remove(key)

Spec == Init /\ [][Next]_vars

\* Single-owner use of a table of seven slots that is only filled and read,
\* never deleted from (so that no key is ever stored twice), with four keys
\* that share one probe cycle of three slots at size 15 (keys 4, 9, 74, 79:
\* slots 4, 9, 14)
DenseInit ==
    /\ _size \in DenseInitialSizes
    /\ _table = EmptyTable(_size)
    /\ _count = 0
    /\ last = [op |-> "init", key |-> 0, val |-> None, exc |-> None,
               rehashes |-> 0, len0 |-> 0, held0 |-> FALSE]
    /\ ever_set = {}
    /\ SharedIdle
    /\ OtherIdle

DenseSetItem(key, value) ==
    LET r == __setitem__(Self, key, value)
    IN  /\ r.self.size <= MaxDenseSize
        /\ Store(r.self)
        /\ last' = Call("set", key, value, r.exc, r.rehashes)
        /\ ever_set' = ever_set \cup {key}
        /\ UNCHANGED <<sharedVars, otherVars>>

DenseNext ==
    \/ \E key \in DenseKeys, value \in DenseValues : DenseSetItem(key, value)
    \/ \E key \in DenseKeys : GetItem(key)
    \/ \E key \in DenseKeys : Contains(key)
    \/ \E key \in DenseKeys : Find(key)
    \/ LenCall
    \/ IterCall

SpecDense == DenseInit /\ [][DenseNext]_vars

\* Construction with a small initial_size, and the calls made on the object
\* it returns.  Before the constructor is called there is no object
\* (last.op = "none"); the record of the constructor call keeps
\* initial_size in its field `key`.
NoObject ==
    [op |-> "none", key |-> 0, val |-> None, exc |-> None,
     rehashes |-> 0, len0 |-> 0, held0 |-> FALSE]

SmallInit ==
    /\ _size = 0
    /\ _table = <<>>
    /\ _count = 0
    /\ last = NoObject
    /\ ever_set = {}
    /\ SharedIdle
    /\ OtherIdle

\* hash(key) % self._size or hash(key) % (self._size - 1) divides by zero
ModulusZero(self) == self.size = 0 \/ self.size - 1 = 0

\* HashTable(initial_size): no test of initial_size is made
Construct(initial_size) ==
    /\ last.op = "none"
    /\ Store([size |-> initial_size, table |-> EmptyTable(initial_size), count |-> 0])
    /\ last' = [op |-> "init", key |-> initial_size, val |-> None, exc |-> None,
                rehashes |-> 0, len0 |-> 0, held0 |-> FALSE]
    /\ UNCHANGED <<ever_set, sharedVars, otherVars>>

\* self[key] = value: the rehash for the load factor is made before _add
\* computes the probe sequence and raises
SmallSetItem(key, value) ==
    /\ last.op # "none"
    /\ IF ModulusZero(BeforeAdd(Self))
       THEN /\ Store(BeforeAdd(Self))
            /\ last' = Call("set", key, value, "ZeroDivisionError",
                            IF LoadFactorReached(Self) THEN 1 ELSE 0)
       ELSE LET r == __setitem__(Self, key, value)
            IN  /\ r.self.size <= MaxSize
                /\ r.self.size >= - MaxSize
                /\ r.self.count <= MaxCount
                /\ Store(r.self)
                /\ last' = Call("set", key, value, r.exc, r.rehashes)
    /\ ever_set' = ever_set \cup {key}
    /\ UNCHANGED <<sharedVars, otherVars>>

SmallGetItem(key) ==
    /\ last.op # "none"
    /\ last' = Call("get", key, None,
                    IF ModulusZero(Self) THEN "ZeroDivisionError"
                    ELSE __getitem__(Self, key).exc, 0)
    /\ UNCHANGED <<_size, _table, _count, ever_set, sharedVars, otherVars>>

SmallDelItem(key) ==
    /\ last.op # "none"
    /\ IF ModulusZero(Self)
       THEN /\ last' = Call("del", key, None, "ZeroDivisionError", 0)
            /\ UNCHANGED <<_size, _table, _count>>
       ELSE LET r == __delitem__(Self, key)
            IN  /\ Store(r.self)
                /\ last' = Call("del", key, None, r.exc, 0)
    /\ UNCHANGED <<ever_set, sharedVars, otherVars>>

SmallContains(key) ==
    /\ last.op # "none"
    /\ last' = Call("contains", key, None,
                    IF ModulusZero(Self) THEN "ZeroDivisionError" ELSE None, 0)
    /\ UNCHANGED <<_size, _table, _count, ever_set, sharedVars, otherVars>>

SmallFind(key) ==
    /\ last.op # "none"
    /\ last' = Call("find", key, None,
                    IF ModulusZero(Self) THEN "ZeroDivisionError" ELSE None, 0)
    /\ UNCHANGED <<_size, _table, _count, ever_set, sharedVars, otherVars>>

SmallNext ==
    \/ \E initial_size \in SmallSizes : Construct(initial_size)
    \/ \E key \in SmallKeys, value \in SmallValues : SmallSetItem(key, value)
    \/ \E key \in SmallKeys : SmallGetItem(key)
    \/ \E key \in SmallKeys : SmallDelItem(key)
    \/ \E key \in SmallKeys : SmallContains(key)
    \/ \E key \in SmallKeys : SmallFind(key)
    \/ (last.op # "none" /\ LenCall)
    \/ (last.op # "none" /\ IterCall)

SpecSmall == SmallInit /\ [][SmallNext]_vars

TypeOK ==
    /\ _size \in 2..MaxSize
    /\ Len(_table) = _size
    /\ \A i \in 1..Len(_table) : _table[i] = <<>> \/ _table[i] \in Keys \X Values
    /\ _count \in Int

---------------------------------------------------------------------------
(* Shared use: several contexts call the methods of one table.  The lists, *)
(* the counter and the lock live in the manager; _size and the reference   *)
(* _table are plain attributes of the object, one object for the threads   *)
(* of a process (shared_self) or one copy in every forked process.         *)

\* the object as context c sees it
View(c) == [size |-> p_size[c], table |-> heap[p_table[c]], count |-> m_count]

\* self.<field> = v in context c
Assign(field, c, v) ==
    IF shared_self THEN [x \in Ctx |-> v] ELSE [field EXCEPT ![c] = v]

\* the manager drops the lists no proxy refers to: those that are neither
\* the _table of a context nor the list an iteration copies
Collect(h, refs, iterated) ==
    [l \in ListIds |->
        IF l \in {refs[x] : x \in Ctx} \cup {iterated[x] : x \in Ctx}
        THEN h[l] ELSE <<>>]

\* the key sets the table of an iterating context has held, given the lists
\* and references a step leaves
Track(h, refs) ==
    instants' = [x \in Ctx |->
                    IF pc[x] = "iter"
                    THEN instants[x] \cup {Held([table |-> h[refs[x]]])}
                    ELSE instants[x]]

\* no single-owner use
OwnerIdle ==
    /\ _size = 0
    /\ _table = <<>>
    /\ _count = 0
    /\ last = [op |-> "init", key |-> 0, val |-> None, exc |-> None,
               rehashes |-> 0, len0 |-> 0, held0 |-> FALSE]
    /\ ever_set = {}

\* the state after construction, before the contexts start
Constructed ==
    /\ OwnerIdle
    /\ OtherIdle
    /\ shared_self \in BOOLEAN
    /\ \E n \in SharedInitialSizes :
          /\ p_size = [c \in Ctx |-> n]
          /\ heap = [l \in ListIds |-> IF l = 1 THEN EmptyTable(n) ELSE <<>>]
    /\ p_table = [c \in Ctx |-> 1]
    /\ m_count = 0
    /\ m_lock = 0
    /\ pc = [c \in Ctx |-> "idle"]
    /\ call = [c \in Ctx |-> NoCall]
    /\ attempt = [c \in Ctx |-> 0]
    /\ old_items = [c \in Ctx |-> <<>>]
    /\ ret = [c \in Ctx |-> None]
    /\ NoReads
    /\ NoneExpected

InitShared == Constructed /\ disjoint = FALSE

\* the contexts work on disjoint key sets
InitDisjoint == Constructed /\ disjoint = TRUE

\* the call of context c returns (or raises)
Return(c) ==
    /\ pc' = [pc EXCEPT ![c] = "idle"]
    /\ call' = [call EXCEPT ![c] = NoCall]
    /\ attempt' = [attempt EXCEPT ![c] = 0]
    /\ ret' = [ret EXCEPT ![c] = None]

\* self[key] = value is called
CallSet(c, key, value) ==
    /\ pc[c] = "idle"
    /\ disjoint => key \in OwnKeys(c)
    /\ p_size[c] <= MaxSharedSize
    /\ pc' = [pc EXCEPT ![c] = "check"]
    /\ call' = [call EXCEPT ![c] = [op |-> "set", key |-> key, val |-> value,
                                     entry_size |-> p_size[c],
                                     entry_reached |-> LoadFactorReached(View(c))]]
    /\ attempt' = [attempt EXCEPT ![c] = 1]
    /\ UNCHANGED <<ownerVars, otherVars, scenarioVars, obsVars, shared_self, heap, m_count, m_lock, p_size, p_table,
                   old_items, ret>>

\* the load factor test of __setitem__, made without the lock
Check(c) ==
    /\ pc[c] = "check"
    /\ pc' = [pc EXCEPT ![c] = IF LoadFactorReached(View(c)) THEN "rehash" ELSE "add"]
    /\ UNCHANGED <<ownerVars, otherVars, scenarioVars, obsVars, shared_self, heap, m_count, m_lock, p_size, p_table,
                   call, attempt, old_items, ret>>

\* del self[key] is called
CallDel(c, key) ==
    /\ pc[c] = "idle"
    /\ disjoint => key \in OwnKeys(c)
    /\ pc' = [pc EXCEPT ![c] = "remove"]
    /\ call' = [call EXCEPT ![c] = [op |-> "del", key |-> key, val |-> None,
                                     entry_size |-> 0, entry_reached |-> FALSE]]
    /\ UNCHANGED <<ownerVars, otherVars, scenarioVars, obsVars, shared_self, heap, m_count, m_lock, p_size, p_table,
                   attempt, old_items, ret>>

\* self[key] is called
CallGet(c, key) ==
    /\ pc[c] = "idle"
    /\ disjoint => key \in OwnKeys(c)
    /\ pc' = [pc EXCEPT ![c] = "search"]
    /\ call' = [call EXCEPT ![c] = [op |-> "get", key |-> key, val |-> None,
                                     entry_size |-> 0, entry_reached |-> FALSE]]
    /\ UNCHANGED <<ownerVars, otherVars, scenarioVars, obsVars, shared_self, heap, m_count, m_lock, p_size, p_table,
                   attempt, old_items, ret>>

\* len(self): one read of the counter, without the lock (ret holds the
\* number in decimal: the other results are strings)
LenShared(c) ==
    /\ pc[c] = "idle"
    /\ pc' = [pc EXCEPT ![c] = "len_exit"]
    /\ call' = [call EXCEPT ![c] = [op |-> "len", key |-> 0, val |-> None,
                                     entry_size |-> 0, entry_reached |-> FALSE]]
    /\ ret' = [ret EXCEPT ![c] = ToString(__len__(View(c)))]
    /\ UNCHANGED <<ownerVars, otherVars, scenarioVars, obsVars, shared_self, heap, m_count, m_lock, p_size,
                   p_table, attempt, old_items>>

\* len(self) returns
LenExit(c) ==
    /\ pc[c] = "len_exit"
    /\ Return(c)
    /\ UNCHANGED <<ownerVars, otherVars, scenarioVars, obsVars, shared_self, heap, m_count, m_lock, p_size,
                   p_table, old_items>>

\* iter(self) up to the first item read of list(self._table): the proxy
\* self._table is evaluated once
IterStart(c) ==
    /\ pc[c] = "idle"
    /\ pc' = [pc EXCEPT ![c] = "iter"]
    /\ call' = [call EXCEPT ![c] = [op |-> "iter", key |-> 0, val |-> None,
                                     entry_size |-> 0, entry_reached |-> FALSE]]
    /\ it_list' = [it_list EXCEPT ![c] = p_table[c]]
    /\ it_pos' = [it_pos EXCEPT ![c] = 0]
    /\ snapshot' = [snapshot EXCEPT ![c] = <<>>]
    /\ instants' = [instants EXCEPT ![c] = {Held(View(c))}]
    /\ UNCHANGED <<ownerVars, otherVars, scenarioVars, shared_self, heap, m_count, m_lock, p_size, p_table,
                   attempt, old_items, ret, old_count>>

\* list(self._table) reads one item of the manager's list, without the
\* lock (the list proxy has no __iter__: the copy is made by __getitem__
\* calls until IndexError); the keys of the items are what is yielded
IterRead(c) ==
    /\ pc[c] = "iter"
    /\ LET list == heap[it_list[c]]
       IN  IF it_pos[c] < Len(list)
           THEN /\ snapshot' = [snapshot EXCEPT ![c] =
                                   IF list[it_pos[c] + 1] = <<>> THEN @
                                   ELSE Append(@, list[it_pos[c] + 1][1])]
                /\ it_pos' = [it_pos EXCEPT ![c] = @ + 1]
                /\ pc' = pc
           ELSE /\ pc' = [pc EXCEPT ![c] = "iter_done"]
                /\ UNCHANGED <<snapshot, it_pos>>
    /\ UNCHANGED <<ownerVars, otherVars, scenarioVars, shared_self, heap, m_count, m_lock, p_size, p_table,
                   call, attempt, old_items, ret, it_list, instants, old_count>>

\* the keys of the snapshot have been yielded; the generator returns
IterExit(c) ==
    /\ pc[c] = "iter_done"
    /\ Return(c)
    /\ it_list' = [it_list EXCEPT ![c] = 0]
    /\ it_pos' = [it_pos EXCEPT ![c] = 0]
    /\ snapshot' = [snapshot EXCEPT ![c] = <<>>]
    /\ instants' = [instants EXCEPT ![c] = {}]
    /\ heap' = Collect(heap, p_table, [it_list EXCEPT ![c] = 0])
    /\ UNCHANGED <<ownerVars, otherVars, scenarioVars, shared_self, m_count, m_lock, p_size, p_table,
                   old_items, old_count>>

\* a lock that would be given to a context while another holds it
Acquire_while_held(c) ==
    /\ pc[c] \in {"rehash", "add", "remove", "search"}
    /\ m_lock' = c
    /\ pc' = [pc EXCEPT ![c] = CASE pc[c] = "rehash" -> "rehash_reset"
                                 [] pc[c] = "add"    -> "add_body"
                                 [] pc[c] = "remove" -> "remove_body"
                                 [] pc[c] = "search" -> "search_body"]
    /\ UNCHANGED <<ownerVars, otherVars, scenarioVars, obsVars, shared_self, heap, m_count,
                   p_size, p_table, call, attempt, old_items, ret>>

\* with self._lock: of _rehash, _add, _remove and _search
Acquire(c) ==
    /\ pc[c] \in {"rehash", "add", "remove", "search"}
    /\ m_lock = 0
    /\ m_lock' = c
    /\ pc' = [pc EXCEPT ![c] = CASE pc[c] = "rehash" -> "rehash_reset"
                                 [] pc[c] = "add"    -> "add_body"
                                 [] pc[c] = "remove" -> "remove_body"
                                 [] pc[c] = "search" -> "search_body"]
    /\ UNCHANGED <<ownerVars, otherVars, scenarioVars, obsVars, shared_self, heap, m_count, p_size, p_table,
                   call, attempt, old_items, ret>>

\* _rehash up to the reset of the counter
RehashReset(c) ==
    LET new_size == p_size[c] * 2 + 1
        new_list == Min(ListIds \ ({p_table[x] : x \in Ctx} \cup {it_list[x] : x \in Ctx}))
        refs     == Assign(p_table, c, new_list)
        lists    == Collect([heap EXCEPT ![new_list] = EmptyTable(new_size)], refs, it_list)
    IN  /\ pc[c] = "rehash_reset"
        /\ old_items' = [old_items EXCEPT ![c] = OldItems(heap[p_table[c]], 1)]
        /\ p_size' = Assign(p_size, c, new_size)
        /\ p_table' = refs
        /\ heap' = lists
        /\ old_count' = [old_count EXCEPT ![c] = m_count]
        /\ m_count' = 0
        /\ pc' = [pc EXCEPT ![c] = "rehash_reinsert"]
        /\ Track(lists, refs)
        /\ UNCHANGED <<ownerVars, otherVars, scenarioVars, shared_self, m_lock, call, attempt, ret,
                       it_list, it_pos, snapshot>>

\* one pass of the reinsertion loop of _rehash
RehashReinsert(c) ==
    /\ pc[c] = "rehash_reinsert"
    /\ old_items[c] # <<>>
    /\ LET self == Reinsert(View(c), Head(old_items[c]))
       IN  /\ heap' = [heap EXCEPT ![p_table[c]] = self.table]
           /\ m_count' = self.count
           /\ Track([heap EXCEPT ![p_table[c]] = self.table], p_table)
    /\ old_items' = [old_items EXCEPT ![c] = Tail(@)]
    /\ UNCHANGED <<ownerVars, otherVars, scenarioVars, shared_self, m_lock, p_size, p_table, pc, call,
                   attempt, ret, it_list, it_pos, snapshot, old_count>>

\* _rehash returns and releases the lock; __setitem__ goes on to _add
RehashExit(c) ==
    /\ pc[c] = "rehash_reinsert"
    /\ old_items[c] = <<>>
    /\ m_lock' = 0
    /\ pc' = [pc EXCEPT ![c] = "add"]
    /\ old_count' = [old_count EXCEPT ![c] = 0]
    /\ UNCHANGED <<ownerVars, otherVars, scenarioVars, shared_self, heap, m_count, p_size, p_table,
                   call, attempt, old_items, ret, it_list, it_pos, snapshot, instants>>

\* the probe loop of _add
AddBody(c) ==
    /\ pc[c] = "add_body"
    /\ LET r == _add(View(c), call[c].key, call[c].val)
       IN  /\ heap' = [heap EXCEPT ![p_table[c]] = r.self.table]
           /\ m_count' = r.self.count
           /\ ret' = [ret EXCEPT ![c] = IF r.ret THEN "True" ELSE "False"]
           /\ Track([heap EXCEPT ![p_table[c]] = r.self.table], p_table)
           /\ expected' = IF disjoint /\ r.ret
                          THEN [expected EXCEPT ![call[c].key] = call[c].val]
                          ELSE expected
    /\ pc' = [pc EXCEPT ![c] = "add_exit"]
    /\ UNCHANGED <<ownerVars, otherVars, disjoint, shared_self, m_lock, p_size, p_table, call,
                   attempt, old_items, it_list, it_pos, snapshot, old_count>>

\* _add returns and releases the lock; __setitem__ returns, rehashes and
\* retries, or raises RuntimeError
AddExit(c) ==
    /\ pc[c] = "add_exit"
    /\ m_lock' = 0
    /\ IF ret[c] = "False" /\ attempt[c] = 1
       THEN /\ pc' = [pc EXCEPT ![c] = "rehash"]
            /\ attempt' = [attempt EXCEPT ![c] = 2]
            /\ ret' = [ret EXCEPT ![c] = None]
            /\ UNCHANGED call
       ELSE Return(c)
    /\ UNCHANGED <<ownerVars, otherVars, scenarioVars, obsVars, shared_self, heap, m_count, p_size, p_table, old_items>>

\* the probe loop of _remove
RemoveBody(c) ==
    /\ pc[c] = "remove_body"
    /\ LET r == _remove(View(c), call[c].key)
       IN  /\ heap' = [heap EXCEPT ![p_table[c]] = r.self.table]
           /\ m_count' = r.self.count
           /\ ret' = [ret EXCEPT ![c] = IF r.ret THEN "True" ELSE "False"]
           /\ Track([heap EXCEPT ![p_table[c]] = r.self.table], p_table)
           /\ expected' = IF disjoint /\ r.ret
                          THEN [expected EXCEPT ![call[c].key] = "absent"]
                          ELSE expected
    /\ pc' = [pc EXCEPT ![c] = "exit"]
    /\ UNCHANGED <<ownerVars, otherVars, disjoint, shared_self, m_lock, p_size, p_table, call,
                   attempt, old_items, it_list, it_pos, snapshot, old_count>>

\* a _search that would take the item it finds out of the table
SearchBody_taking(c) ==
    /\ pc[c] = "search_body"
    /\ ret' = [ret EXCEPT ![c] = _search(View(c), call[c].key)]
    /\ LET r == _remove(View(c), call[c].key)
       IN  /\ heap' = [heap EXCEPT ![p_table[c]] = r.self.table]
           /\ m_count' = r.self.count
           /\ Track([heap EXCEPT ![p_table[c]] = r.self.table], p_table)
    /\ pc' = [pc EXCEPT ![c] = "exit"]
    /\ UNCHANGED <<ownerVars, otherVars, scenarioVars, shared_self, m_lock, p_size, p_table,
                   call, attempt, old_items, it_list, it_pos, snapshot, old_count>>

\* the probe loop of _search
SearchBody(c) ==
    /\ pc[c] = "search_body"
    /\ ret' = [ret EXCEPT ![c] = _search(View(c), call[c].key)]
    /\ pc' = [pc EXCEPT ![c] = "exit"]
    /\ UNCHANGED <<ownerVars, otherVars, scenarioVars, obsVars, shared_self, heap, m_count, m_lock, p_size, p_table,
                   call, attempt, old_items>>

\* a return of _remove or _search that would keep the lock
Exit_keeps_lock(c) ==
    /\ pc[c] = "exit"
    /\ Return(c)
    /\ UNCHANGED <<ownerVars, otherVars, scenarioVars, obsVars, shared_self, heap, m_count, m_lock,
                   p_size, p_table, old_items>>

\* _remove or _search returns and releases the lock; the caller returns
\* or raises KeyError
Exit(c) ==
    /\ pc[c] = "exit"
    /\ m_lock' = 0
    /\ Return(c)
    /\ UNCHANGED <<ownerVars, otherVars, scenarioVars, obsVars, shared_self, heap, m_count, p_size, p_table, old_items>>

NextShared ==
    \E c \in Ctx :
        \/ \E key \in SharedKeys, value \in SharedValues : CallSet(c, key, value)
        \/ \E key \in SharedKeys : CallDel(c, key)
        \/ \E key \in SharedKeys : CallGet(c, key)
        \/ LenShared(c)
        \/ LenExit(c)
        \/ IterStart(c)
        \/ IterRead(c)
        \/ IterExit(c)
        \/ Check(c)
        \/ Acquire(c)
        \/ RehashReset(c)
        \/ RehashReinsert(c)
        \/ RehashExit(c)
        \/ AddBody(c)
        \/ AddExit(c)
        \/ RemoveBody(c)
        \/ SearchBody(c)
        \/ Exit(c)

SpecShared == InitShared /\ [][NextShared]_vars

SpecDisjoint == InitDisjoint /\ [][NextShared]_vars

---------------------------------------------------------------------------
(* Properties of single-owner use *)

GetNow(key) == __getitem__(Self, key)

\* C1: right after set(k, v) completed without error, with v not None,
\* get(k) returns v and contains(k) is true, rehash or not.
C1_SetThenGet ==
    (last.op = "set" /\ last.exc = None /\ last.val # None) =>
        /\ GetNow(last.key) = [ret |-> last.val, exc |-> None]
        /\ __contains__(Self, last.key)

\* a set of a key the table held, completed after a rehash
C1_Witness ==
    /\ last.op = "set" /\ last.exc = None /\ last.val # None
    /\ last.rehashes > 0 /\ last.held0
    /\ GetNow(last.key).ret = last.val

\* C2: after a successful delete(k), contains(k) is false, get(k) raises
\* KeyError, find(k) is None and len() is one less than before.
C2_DeleteRemoves ==
    (last.op = "del" /\ last.exc = None) =>
        /\ ~ __contains__(Self, last.key)
        /\ GetNow(last.key).exc = "KeyError"
        /\ find(Self, last.key) = None
        /\ __len__(Self) = last.len0 - 1

\* C3: no two occupied slots hold the same key.
C3_KeysUnique ==
    \A i, j \in 1.._size :
        (_table[i] # <<>> /\ _table[j] # <<>> /\ _table[i][1] = _table[j][1]) => i = j

\* C4: set(k, v') of a key the table holds leaves len() unchanged and
\* makes get(k) return v' (stated for v' not None).
C4_OverwriteInPlace ==
    (last.op = "set" /\ last.exc = None /\ last.held0) =>
        /\ __len__(Self) = last.len0
        /\ last.val # None => GetNow(last.key).ret = last.val

\* C5: len() equals the number of keys for which contains is true.
C5_LenCountsContained ==
    __len__(Self) = Cardinality({k \in Keys : __contains__(Self, k)})

\* the tables __setitem__ would hand to _rehash from this state, for the
\* load factor or for an exhausted probe sequence of some key
RehashInputs(self) ==
    (IF LoadFactorReached(self) THEN {self} ELSE {})
    \cup {BeforeAdd(self) : k \in {x \in Keys : ~ _add(BeforeAdd(self), x, None).ret}}

\* C6: every rehash keeps every key with the value get returned before,
\* drops no entry and leaves len() unchanged.
C6_RehashPreservesMapping ==
    \A self \in RehashInputs(Self) :
        LET new == _rehash(self)
        IN  /\ \A k \in Keys : find(new, k) = find(self, k)
            /\ Held(new) = Held(self)
            /\ __len__(new) = __len__(self)

\* C7: set never raises RuntimeError("Insertion failed even after rehash").
C7_SetNeverFails == last.op = "set" => last.exc # "RuntimeError"

\* C8: count equals the number of occupied slots, and 0 <= count <= size:
\* in single-owner use after every call, in shared use for the table of
\* every context whenever no context holds the lock.
C8_CountIsOccupied ==
    /\ _count = Occupied(_table)
    /\ 0 <= _count /\ _count <= _size
    /\ m_lock = 0 =>
          \A c \in Ctx :
              /\ m_count = Occupied(heap[p_table[c]])
              /\ 0 <= m_count /\ m_count <= p_size[c]

C12_SetKeepsOtherKeys ==
    [][last'.op = "set" =>
          \A k2 \in Held(Self) \ {last'.key} :
              /\ k2 \in Held(Self')
              /\ find(Self', k2) = find(Self, k2)]_vars

\* C13: the keys iteration yields hold no key twice, are as a set the keys
\* for which contains is true, are len() many, and come in slot order (the
\* n-th key yielded is the key of the n-th occupied slot).
C13_IterYieldsStoredOnce ==
    LET keys == __iter__(Self)
    IN  /\ \A i, j \in 1..Len(keys) : keys[i] = keys[j] => i = j
        /\ {keys[n] : n \in 1..Len(keys)} = {k \in Keys : __contains__(Self, k)}
        /\ Len(keys) = __len__(Self)
        /\ \A i \in 1.._size :
              _table[i] # <<>> =>
                  keys[Occupied(SubSeq(_table, 1, i))] = _table[i][1]

\* C14: in the state a completed set(k, v) leaves, a second set(k, v)
\* completes, leaves len() as it is, and find(k) returns v after it,
\* whether or not the second call rehashes.
C14_SetTwiceIdempotent ==
    (last.op = "set" /\ last.exc = None) =>
        LET r == __setitem__(Self, last.key, last.val)
        IN  /\ r.exc = None
            /\ __len__(r.self) = __len__(Self)
            /\ find(r.self, last.key) = last.val

\* C15: contains(k) is true exactly when some slot on the probe sequence of
\* k holds k, whatever the value stored; after set(k, None), contains(k) is
\* true and get(k) returns None without raising KeyError.
C15_LookupStructural ==
    /\ \A k \in Keys :
          __contains__(Self, k) <=>
              \E n \in 1.._size :
                  LET slot == _table[_probe_sequence(Self, k)[n] + 1]
                  IN  slot # <<>> /\ slot[1] = k
    /\ (last.op = "set" /\ last.exc = None /\ last.val = None) =>
          /\ __contains__(Self, last.key)
          /\ GetNow(last.key) = [ret |-> None, exc |-> None]

\* C16: a constructor call with initial_size < 2 raises, no object has a
\* size below 2, and no call raises ZeroDivisionError.
C16_SmallSizeRejected ==
    /\ (last.op = "init" /\ last.key < 2) => last.exc # None
    /\ (last.op # "none" /\ ~ (last.op = "init" /\ last.exc # None)) => _size >= 2
    /\ last.exc # "ZeroDivisionError"

\* C17: add(k, v) has the effect of set(k, v); find(k) returns what get(k)
\* returns when some slot holds k and None when none does; remove(k)
\* returns True with the state change of delete(k) when some slot holds k,
\* and False with no state change when none does.
C17_ConvenienceAgree ==
    /\ \A k \in Keys, v \in Values : add(Self, k, v) = __setitem__(Self, k, v)
    /\ \A k \in Keys :
          IF k \in Held(Self)
          THEN GetNow(k) = [ret |-> find(Self, k), exc |-> None]
          ELSE find(Self, k) = None
    /\ \A k \in Keys :
          IF k \in Held(Self)
          THEN /\ remove(Self, k).ret
               /\ __delitem__(Self, k) = [self |-> remove(Self, k).self, exc |-> None]
          ELSE remove(Self, k) = [self |-> Self, ret |-> FALSE]
    /\ last.op = "remove" => (last.held0 <=> _count = last.len0 - 1)

---------------------------------------------------------------------------
(* Properties of shared use *)

\* context c is in a set call, past its load factor test and not past the
\* probe loop of its _add
BetweenCheckAndPlace(c) ==
    /\ call[c].op = "set"
    /\ pc[c] \in {"rehash", "rehash_reset", "rehash_reinsert", "add", "add_body"}

\* context d makes a step of the body of _rehash, _add, _remove or _search
BodyStep(d) ==
    /\ pc[d] \in {"rehash_reset", "rehash_reinsert", "add_body", "remove_body",
                   "search_body"}
    /\ pc'[d] # pc[d] \/ old_items'[d] # old_items[d]

\* C18: while a context is between the load factor test and the placement
\* of its set call, no other context makes a step of a set, get, delete or
\* rehash body.
C18_SetAtomic ==
    [][\A c \in Ctx :
          BetweenCheckAndPlace(c) => \A d \in Ctx \ {c} : ~ BodyStep(d)]_vars

\* context c is inside _rehash, between the reset of the counter and the
\* return
InRehash(c) == pc[c] = "rehash_reinsert"

\* the object as context c will see it when its _rehash has finished
PostRehash(c) == ReinsertAll(View(c), old_items[c], 1)

\* context d reads the counter: len(), or the load factor test of a set
CountRead(d) ==
    \/ pc[d] = "idle" /\ pc'[d] = "len_exit"
    \/ pc[d] = "check" /\ pc'[d] # "check"

\* context d reads one item of the list it iterates
SlotRead(d) == pc[d] = "iter" /\ it_pos'[d] = it_pos[d] + 1

\* C19: while a context c is inside _rehash, another context makes no step
\* of a get, delete or set body, every read of the counter returns the
\* count before the rehash or the count after it, and every item read from
\* the table c refills returns the item the table holds after the rehash.
C19_NoPartialRehashSeen ==
    [][\A c \in Ctx : \A d \in Ctx \ {c} :
          InRehash(c) =>
              /\ ~ BodyStep(d)
              /\ CountRead(d) => m_count \in {old_count[c], PostRehash(c).count}
              /\ (SlotRead(d) /\ it_list[d] = p_table[c]) =>
                    heap[it_list[d]][it_pos[d] + 1]
                        = PostRehash(c).table[it_pos[d] + 1]]_vars

\* C20: an iteration copies its snapshot while it holds the lock, and the
\* keys of a finished snapshot are the keys the table held at one instant
\* between the start of the iteration and the end of the copy.
C20_IterSnapshotAtInstant ==
    \A c \in Ctx :
        /\ pc[c] = "iter_done" =>
              {snapshot[c][n] : n \in 1..Len(snapshot[c])} \in instants[c]
        /\ pc[c] = "iter" => m_lock = c

\* C21: when the contexts work on disjoint key sets and every call has
\* returned, len() is the number of keys set and not deleted since, and
\* every context finds each such key in the table with the value its owner
\* set last.
C21_DisjointNoLostUpdate ==
    (disjoint /\ \A c \in Ctx : pc[c] = "idle") =>
        \A c \in Ctx :
            /\ __len__(View(c)) = Cardinality({k \in SharedKeys : expected[k] # "absent"})
            /\ \A k \in SharedKeys :
                  expected[k] # "absent" =>
                      /\ k \in Held(View(c))
                      /\ find(View(c), k) = expected[k]

Step(c) ==
    \/ Check(c)
    \/ LenExit(c)
    \/ IterRead(c)
    \/ IterExit(c)
    \/ RehashReset(c)
    \/ RehashReinsert(c)
    \/ RehashExit(c)
    \/ AddBody(c)
    \/ AddExit(c)
    \/ RemoveBody(c)
    \/ SearchBody(c)
    \/ Exit(c)

\* what every step of a call in progress changes: its position in the code,
\* in the item reads of an iteration or in the reinsertion loop
progressVars == <<pc, it_pos, old_items>>

\* fair scheduling: a context that can make a step is not held back for
\* ever, and a context that waits in with self._lock: gets the lock if the
\* lock is released again and again
Fairness ==
    \A c \in Ctx : WF_progressVars(Step(c)) /\ SF_progressVars(Acquire(c))

SpecDisjointFair == InitDisjoint /\ [][NextShared]_vars /\ Fairness

CacheSizes == {1, 2}

\* the positional arguments of a call
CacheArgs == {<<1>>, <<2>>}

\* the keyword arguments of a call in the order they are written, as pairs
\* <<name, value>>; the names 1 and 2 stand for two parameter names in
\* their alphabetical order
CacheKwargs == {<<>>, <<<<1, 7>>, <<2, 8>>>>, <<<<2, 8>>, <<1, 7>>>>}

\* what a call of the wrapped function returns (any of them at any call:
\* the function need not be pure)
CacheResults == {"r1", "r2"}

\* sorted(kwargs.items()): the pairs by ascending name
RECURSIVE sorted(_)
sorted(items) ==
    IF items = <<>> THEN <<>>
    ELSE LET m == CHOOSE i \in 1..Len(items) :
                      \A j \in 1..Len(items) : items[i][1] <= items[j][1]
         IN  <<items[m]>> \o sorted(SubSeq(items, 1, m - 1) \o SubSeq(items, m + 1, Len(items)))

\* key = (args, tuple(sorted(kwargs.items())))
Key(args, kwargs) == <<args, sorted(kwargs)>>

CacheKeys == {Key(args, kwargs) : args \in CacheArgs, kwargs \in CacheKwargs}

\* key in cache
InCache(c, k) == \E i \in 1..Len(c) : c[i][1] = k

\* cache[key]
Lookup(c, k) == c[CHOOSE i \in 1..Len(c) : c[i][1] = k][2]

\* the keys of the dictionary in its order
KeysOf(c) == [i \in 1..Len(c) |-> c[i][1]]

\* a dictionary whose hit would leave the order alone
move_to_end_noop(c, k) == c

\* cache.move_to_end(key)
move_to_end(c, k) ==
    SelectSeq(c, LAMBDA e : e[1] # k) \o SelectSeq(c, LAMBDA e : e[1] = k)

\* cache[key] = result: a new key goes to the end, a key the dictionary
\* holds keeps its place
StoreResult(c, k, result) ==
    IF InCache(c, k)
    THEN [i \in 1..Len(c) |-> IF c[i][1] = k THEN <<k, result>> ELSE c[i]]
    ELSE Append(c, <<k, result>>)

\* a dictionary from which nothing would be removed
popitem_none(c) == c

\* cache.popitem(last=False)
popitem(c) == Tail(c)

\* wrapper(*args, **kwargs) on the dictionary c of a cache of size n, where
\* func, if it is called, returns outcome or raises (outcome "raise")
wrapper(c, n, args, kwargs, outcome) ==
    LET k == Key(args, kwargs)
    IN  IF InCache(c, k)
        THEN [cache |-> move_to_end(c, k), ret |-> Lookup(move_to_end(c, k), k),
              invoked |-> FALSE, exc |-> None]
        ELSE IF outcome = "raise"
        THEN [cache |-> c, ret |-> None, invoked |-> TRUE, exc |-> "Exception"]
        ELSE LET stored == StoreResult(c, k, outcome)
             IN  [cache |-> IF Len(stored) > n THEN popitem(stored) ELSE stored,
                  ret |-> outcome, invoked |-> TRUE, exc |-> None]

\* the state after @decorator_cache(size=n), n > 0, has decorated a function
CacheInit ==
    /\ OwnerIdle
    /\ SharedIdle
    /\ GameIdle
    /\ BetIdle
    /\ size \in CacheSizes
    /\ cache = <<>>
    /\ wcall = [key |-> <<>>, invoked |-> FALSE, ret |-> None, exc |-> None]
    /\ recent = <<>>
    /\ computed = [k \in CacheKeys |-> "never"]

\* one call of the decorated function; a call that returns is a use of its
\* key, a call of func that returns is a computation of its key
WrapperCall(args, kwargs, outcome) ==
    LET k == Key(args, kwargs)
        r == wrapper(cache, size, args, kwargs, outcome)
    IN  /\ cache' = r.cache
        /\ wcall' = [key |-> k, invoked |-> r.invoked, ret |-> r.ret, exc |-> r.exc]
        /\ recent' = IF r.exc = None
                     THEN Append(SelectSeq(recent, LAMBDA x : x # k), k)
                     ELSE recent
        /\ computed' = IF r.invoked /\ r.exc = None
                       THEN [computed EXCEPT ![k] = outcome]
                       ELSE computed
        /\ UNCHANGED <<ownerVars, sharedVars, gameVars, betVars, size>>

CacheNext ==
    \E args \in CacheArgs, kwargs \in CacheKwargs, outcome \in CacheResults \cup {"raise"} :
        WrapperCall(args, kwargs, outcome)

SpecCache == CacheInit /\ [][CacheNext]_vars

(***************************************************************************)
(* Properties of the cache                                                 *)
(***************************************************************************)

\* the n keys used last, least recently used first
LastN(s, n) == SubSeq(s, IF Len(s) > n THEN Len(s) - n + 1 ELSE 1, Len(s))

\* C24: the cache holds the size keys used last in the order of their last
\* use; a call with one of them returns the result stored for it and does
\* not call the function; a hit moves its key to the most recently used
\* end and leaves the other keys in their order; a new key put into a full
\* cache removes the least recently used key and nothing else.
C24_LRU ==
    [][LET k == wcall'.key
           hit == ~ wcall'.invoked
           inserted == wcall'.invoked /\ wcall'.exc = None
       IN  /\ KeysOf(cache) = LastN(recent, size)
           /\ (\E i \in 1..Len(LastN(recent, size)) : LastN(recent, size)[i] = k) =>
                 /\ hit
                 /\ wcall'.exc = None
                 /\ wcall'.ret = Lookup(cache, k)
           /\ hit =>
                 /\ KeysOf(cache') = Append(SelectSeq(KeysOf(cache), LAMBDA x : x # k), k)
                 /\ recent'[Len(recent')] = k
           /\ (inserted /\ Len(cache) = size) =>
                 /\ KeysOf(cache') = Append(Tail(KeysOf(cache)), k)
                 /\ Head(KeysOf(cache)) = Head(LastN(recent, size))]_vars

\* C24 witness: a hit in a full cache from which keys have been evicted
C24_Witness ==
    /\ wcall.key # <<>>
    /\ ~ wcall.invoked
    /\ Len(cache) = size
    /\ Len(recent) > size

\* C25: after every call the cache holds at most size entries, every entry
\* is the result computed last for its key, and a call that returned has
\* returned the result computed last for its key.
C25_BoundedAndCurrent ==
    /\ Len(cache) <= size
    /\ \A i \in 1..Len(cache) : cache[i][2] = computed[cache[i][1]]
    /\ (wcall.key # <<>> /\ wcall.exc = None) => wcall.ret = computed[wcall.key]

\* C25 witness: a full cache of two entries returns, without a call of the
\* function, a result that is not the one the function returned first
C25_Witness ==
    /\ size = 2
    /\ Len(cache) = 2
    /\ ~ wcall.invoked
    /\ wcall.ret = "r2"
    /\ \E k \in CacheKeys : computed[k] = "r1" /\ ~ InCache(cache, k)

(***************************************************************************)
(* project/task_4/game.py: Game.start_game, the loop of rounds.  The deck  *)
(* is the number of its cards, the players and the bots are their numbers; *)
(* what the cards and the bets are is left open: a round deals any number  *)
(* of cards it can deal, and any participant may fall under 10 chips.      *)
(***************************************************************************)

\* the values given for max_rounds (the default, the value of the tests, 0)
GameMaxRounds == {0, 2, 5}

\* the cards of a new Deck
DeckCards == 52

\* the bots of a new Game
GameBots == 3

\* the most cards a round deals after the two cards for everyone
MaxHits == 4

\* Game(max_rounds), add_player for at most one human, before start_game
GameInit ==
    /\ OwnerIdle
    /\ SharedIdle
    /\ CacheIdle
    /\ BetIdle
    /\ max_rounds \in GameMaxRounds
    /\ current_round = 0
    /\ game_over = FALSE
    /\ deck = DeckCards
    /\ players \in {0, 1}
    /\ bots = GameBots
    /\ game_pc = "loop"
    /\ hindered = {}

\* the test of the while loop of start_game; after the loop the final
\* winner is printed and start_game returns
LoopTest ==
    /\ game_pc = "loop"
    /\ game_pc' = IF ~ game_over /\ current_round < max_rounds THEN "play_round" ELSE "done"
    /\ UNCHANGED <<ownerVars, sharedVars, cacheVars, betVars, max_rounds, current_round, game_over,
                   deck, players, bots, hindered>>

\* play_round: the round is counted, two cards are dealt to everyone and
\* hits more to those who draw; deal_card on an empty deck raises
\* IndexError, which ends start_game; otherwise lost_players humans and
\* lost_bots bots are removed as bankrupt and the end of the game is tested
play_round(hits, lost_players, lost_bots) ==
    LET dealt == 2 * (bots + players + 1) + hits
    IN  /\ game_pc = "play_round"
        /\ current_round' = current_round + 1
        /\ IF dealt > deck
           THEN /\ deck' = 0
                /\ game_pc' = "IndexError"
                /\ hindered' = hindered \cup {"deck"}
                /\ UNCHANGED <<players, bots, game_over>>
           ELSE /\ deck' = deck - dealt
                /\ players' = players - lost_players
                /\ bots' = bots - lost_bots
                /\ game_over' = IF \/ current_round' >= max_rounds
                                   \/ players' + bots' = 0
                                   \/ deck' < 10
                                THEN TRUE ELSE game_over
                /\ game_pc' = "show_results"
                /\ hindered' = hindered
                                 \cup (IF deck' < 10 THEN {"deck"} ELSE {})
                                 \cup (IF players' < players \/ bots' < bots
                                       THEN {"players"} ELSE {})
        /\ UNCHANGED <<ownerVars, sharedVars, cacheVars, betVars, max_rounds>>

\* the rest of the loop body of start_game: the results, the question
\* whether to continue (asked if the game is not over), a new deck if fewer
\* than 10 cards are left
AfterRound(cont) ==
    /\ game_pc = "show_results"
    /\ IF ~ game_over /\ current_round < max_rounds /\ cont # "y"
       THEN /\ game_pc' = "done"
            /\ hindered' = hindered \cup {"answer"}
            /\ deck' = deck
       ELSE /\ game_pc' = "loop"
            /\ hindered' = hindered
            /\ deck' = IF deck < 10 THEN DeckCards ELSE deck
    /\ UNCHANGED <<ownerVars, sharedVars, cacheVars, betVars, max_rounds, current_round, game_over,
                   players, bots>>

GameNext ==
    \/ LoopTest
    \/ \E hits \in 0..MaxHits, lost_players \in 0..players, lost_bots \in 0..bots :
          play_round(hits, lost_players, lost_bots)
    \/ \E cont \in {"y", "n"} : AfterRound(cont)

SpecGame == GameInit /\ [][GameNext]_vars

\* the human answers and the round comes to its end: start_game goes on
\* as long as it can
SpecGameFair == SpecGame /\ WF_gameVars(GameNext)

(***************************************************************************)
(* Properties of the game                                                  *)
(***************************************************************************)

\* C26: current_round never exceeds max_rounds; outside play_round the
\* game is over once a round has brought current_round to max_rounds; no
\* round is counted once the game is over; start_game comes to its end;
\* and when neither the deck nor the players nor the human's answer have
\* kept it from going on, it ends with current_round = max_rounds and the
\* game over.
C26_RoundsUntilGameOver ==
    /\ [](current_round <= max_rounds)
    /\ []((game_pc # "play_round" /\ current_round > 0 /\ current_round = max_rounds)
              => game_over)
    /\ [][game_over => current_round' = current_round]_vars
    /\ <>(game_pc \in {"done", "IndexError"})
    /\ []((game_pc = "done" /\ hindered = {}) =>
             (current_round = max_rounds /\ game_over))

(***************************************************************************)
(* Properties of the probe sequence and of growth (single-owner use)       *)
(***************************************************************************)

\* C27: every occupied slot has an index (h1 + i*h2) mod size for some i in
\* 0..size-1, where h1 = hash mod size and h2 = 1 + (hash mod (size-1)) of
\* the key it holds at the current size, and that h2 is in 1..size-1.
C27_ProbeReachable ==
    \A n \in 1..Len(_table) :
        _table[n] # <<>> =>
            LET h1 == Hash(_table[n][1]) % _size
                h2 == 1 + (Hash(_table[n][1]) % (_size - 1))
            IN  /\ h2 \in 1..(_size - 1)
                /\ \E i \in 0..(_size - 1) : n - 1 = (h1 + i * h2) % _size

\* C27 witness: after a growth, a key lies in a slot that is not the first
\* of its probe sequence
C27_Witness ==
    /\ _size \notin InitialSizes
    /\ \E n \in 1..Len(_table) :
          /\ _table[n] # <<>>
          /\ n - 1 # Hash(_table[n][1]) % _size

\* C28: whatever the key, _add on the table as it is returns False only
\* if no slot is None.
C28_AddFailsOnlyWhenFull ==
    \A key \in Keys :
        ~ _add(Self, key, "v1").ret => Occupied(_table) = _size

\* C29: a call on an object never makes the size smaller; the size changes
\* only in a set, by one step size * 2 + 1 for every rehash the set makes;
\* every other call leaves the size as it is.
C29_SizeOnlyGrows ==
    [][last.op # "none" =>
          /\ _size' >= _size
          /\ _size' # _size =>
                /\ last'.op = "set"
                /\ \/ last'.rehashes = 1 /\ _size' = _size * 2 + 1
                   \/ last'.rehashes = 2 /\ _size' = (_size * 2 + 1) * 2 + 1
          /\ last'.op # "set" => _size' = _size]_vars

\* C30: a set called with count >= 0.75 * size rehashes before it adds,
\* whether or not the key is in the table, and leaves the size greater
\* than it was; a set called below the threshold rehashes only if _add
\* finds no slot on the probe sequence of the key.
C30_RehashFirstAtThreshold ==
    [][last'.op = "set" =>
          IF 4 * _count >= 3 * _size
          THEN /\ last'.rehashes >= 1
               /\ _size' > _size
          ELSE /\ last'.rehashes <= 1
               /\ last'.rehashes = 1 <=>
                     (~ ModulusZero(Self) /\ ~ _add(Self, last'.key, last'.val).ret)
               /\ last'.rehashes = 0 => _size' = _size]_vars

(***************************************************************************)
(* Further properties of single-owner use                                  *)
(***************************************************************************)

\* the items put one after another, with _add, into the table self
RECURSIVE AddAll(_, _, _)
AddAll(self, items, i) ==
    IF i > Len(items) THEN self
    ELSE AddAll(_add(self, items[i][1], items[i][2]).self, items, i + 1)

\* C31: whenever a set would rehash (the load factor is reached, or _add
\* finds no slot for some key), the object _rehash produces is the one
\* obtained by putting the old items, in the order of their slots, with
\* _add into an empty table of the new size.
C31_RehashAsSet ==
    (LoadFactorReached(Self) \/ \E key \in Keys : ~ _add(Self, key, "v1").ret) =>
        _rehash(Self) = AddAll([size |-> _size * 2 + 1,
                                table |-> EmptyTable(_size * 2 + 1),
                                count |-> 0],
                               OldItems(_table, 1), 1)

(***************************************************************************)
(* Further properties of shared use                                        *)
(***************************************************************************)

\* C32: no two contexts are at the same time inside the locked bodies of
\* _add, _search, _remove and _rehash.
C32_MutualExclusion ==
    \A c \in Ctx : \A d \in Ctx \ {c} :
        ~ (/\ pc[c] \in {"rehash_reset", "rehash_reinsert", "add_body", "add_exit",
                         "remove_body", "search_body", "exit"}
           /\ pc[d] \in {"rehash_reset", "rehash_reinsert", "add_body", "add_exit",
                         "remove_body", "search_body", "exit"})

\* C32 witness: a context is in the reinsertion loop of _rehash with items
\* still to place while the other waits for the lock in _add or _remove
C32_Witness ==
    \E c \in Ctx : \E d \in Ctx \ {c} :
        /\ pc[c] = "rehash_reinsert"
        /\ old_items[c] # <<>>
        /\ pc[d] \in {"add", "remove"}

\* C33: a delete that succeeds changes the lookup of no other key: a key
\* k2 # k that some slot held is held afterwards, get and contains of k2
\* give what they gave before, and a k2 that was found is still found.
C33_DeleteHidesNoKey ==
    [][(last'.op = "del" /\ last'.exc = None) =>
          \A k2 \in Held(Self) \ {last'.key} :
              /\ k2 \in Held(Self')
              /\ __getitem__(Self', k2) = __getitem__(Self, k2)
              /\ __contains__(Self', k2) = __contains__(Self, k2)
              /\ __contains__(Self, k2) => __getitem__(Self', k2).exc = None]_vars

\* C33 witness: after a successful delete, another key is found behind a
\* None slot of its probe sequence that is also a slot of the deleted
\* key's probe sequence
C33_Witness ==
    /\ last.op = "del" /\ last.exc = None
    /\ \E k2 \in Held(Self) \ {last.key} :
          /\ __contains__(Self, k2)
          /\ \E n \in 2.._size :
                /\ _table[_probe_sequence(Self, k2)[n] + 1] # <<>>
                /\ _table[_probe_sequence(Self, k2)[n] + 1][1] = k2
                /\ \E m \in 1..(n - 1) :
                      /\ _table[_probe_sequence(Self, k2)[m] + 1] = <<>>
                      /\ \E j \in 1.._size :
                            _probe_sequence(Self, last.key)[j]
                                = _probe_sequence(Self, k2)[m]

\* context d makes a step of a get, a len or an iteration
ReadStep(d) ==
    /\ call[d].op \in {"get", "len", "iter"} \/ call'[d].op \in {"get", "len", "iter"}
    /\ pc'[d] # pc[d] \/ it_pos'[d] # it_pos[d]

\* C34: no step of a get (found or KeyError), a len or an iteration changes
\* the size, a slot or the count of the table, as any context has it.
C34_ReadsChangeNothing ==
    [][\A d \in Ctx :
          ReadStep(d) =>
              /\ m_count' = m_count
              /\ \A c \in Ctx : View(c)' = View(c)]_vars

\* C34 witness: a get is about to raise KeyError on a table that holds an
\* item, while the other context has read part of the table in an iteration
C34_Witness ==
    \E c \in Ctx : \E d \in Ctx \ {c} :
        /\ pc[c] = "exit" /\ call[c].op = "get" /\ ret[c] = None
        /\ m_count > 0
        /\ pc[d] = "iter" /\ it_pos[d] > 0


\* the contexts c and d are both inside a set call, and each call was made
\* when the count of a table of the same size had reached 0.75 * size
SameCrossing(c, d) ==
    /\ call[c].op = "set" /\ call[d].op = "set"
    /\ call[c].entry_reached /\ call[d].entry_reached
    /\ call[c].entry_size = call[d].entry_size

\* C35: when two contexts call set concurrently on a table whose count has
\* reached 0.75 * size, the table grows by one step only: its size does not
\* exceed 2 * old size + 1 (the size never shrinks, so a size above that
\* while both calls are in progress is the size after both have returned).
C35_OneGrowthStep ==
    \A c \in Ctx : \A d \in Ctx \ {c} :
        SameCrossing(c, d) => View(c).size <= 2 * call[c].entry_size + 1

\* C35 violation: both contexts have passed the load factor test of the same
\* crossing, both have rehashed, and the size is 4 * old size + 3
C35_GrownTwice ==
    \E c \in Ctx : \E d \in Ctx \ {c} :
        /\ SameCrossing(c, d)
        /\ pc[c] = "add" /\ pc[d] = "add"
        /\ View(c).size = 4 * call[c].entry_size + 3


(***************************************************************************)
(* Further properties of the game                                          *)
(***************************************************************************)

\* C36: the deck never underflows: in every state start_game reaches,
\* deal_card has only been called with at least one card left, so no round
\* has ended in the IndexError of a pop from the empty list of cards.
C36_DeckNeverUnderflows ==
    game_pc # "IndexError"

\* C36 violation: a round was begun with the 10 cards or more that let the
\* game go on, and asked for more cards than the deck had
C36_Underflow ==
    /\ game_pc = "IndexError"
    /\ deck = 0
    /\ current_round > 1
    /\ ~ game_over


(***************************************************************************)
(* project/task_4: the chips of one participant through the rounds of a    *)
(* game.  What the cards are is left open: a hand may end in any result,   *)
(* and the participant may double, split or surrender whenever the code    *)
(* lets it.  The participants of a game do not touch each other's chips.   *)
(***************************************************************************)

\* the chips of a new player
StartChips == 1000

\* the rounds that are followed
MaxBetRounds == 4

\* who decides: the human at the console, or the strategy object of a bot
Strategies == {"human", "safe", "risk_taker", "unpredictable"}

\* what the human types as a bet (int(input()) takes any integer)
BetInputs == {-2000, 0, 100, 5000}

\* random.randint(-10, 20) of RiskTakerStrategy: both ends and the middle
RiskVariation == {-10, 0, 20}

\* random.randint(-15, 30) of UnpredictableStrategy: both ends and the middle
UnpredictableVariation == {-15, 0, 30}

\* random.uniform(0.05, 0.20) of UnpredictableStrategy, in hundredths
Percentages == {5, 20}

\* how a hand ends
HandResults == {"bust", "charlie", "blackjack", "win", "push", "lose"}

\* what the participant does with its first two cards
TurnChoices == {"stand", "double", "split", "surrender"}

min(a, b) == IF a <= b THEN a ELSE b

max(a, b) == IF a >= b THEN a ELSE b

\* Python's int(x * 1.5): the fraction is cut off towards zero
int_times_1_5(x) == IF x >= 0 THEN (3 * x) \div 2 ELSE - ((3 * (- x)) \div 2)

\* Strategy.calculate_bet for a player with c chips
calculate_bet(s, c, percentage, risk_variation, variation) ==
    CASE s = "safe" -> min(max(10, c \div 20), 100)
      [] s = "risk_taker" -> min(max(20, c \div 6) + risk_variation, 200)
      [] s = "unpredictable" -> min(max(10, (c * percentage) \div 100) + variation, 150)

\* PlayerBase.place_bet(amount) of a player with c chips and the bet b
place_bet(c, b, amount) ==
    IF amount <= c
    THEN [ret |-> TRUE, chips |-> c - amount, bet |-> amount]
    ELSE [ret |-> FALSE, chips |-> c, bet |-> b]

\* PlayerBase.place_insurance
place_insurance(c, b) ==
    IF b \div 2 <= c
    THEN [chips |-> c - b \div 2, insurance_bet |-> b \div 2]
    ELSE [chips |-> c, insurance_bet |-> 0]

\* PlayerBase.can_double and can_split, as far as the chips decide
can_double(c, b) == b * 2 <= c

\* Game._process_payout: what a hand with the bet b adds to the chips
_process_payout(result, dealer_blackjack, b) ==
    CASE result = "bust" -> 0
      [] result = "charlie" -> b * 2
      [] result # "bust" /\ result # "charlie" /\ dealer_blackjack ->
            IF result = "blackjack" THEN b ELSE 0
      [] OTHER ->
            CASE result = "blackjack" -> b + int_times_1_5(b)
              [] result = "win" -> b * 2
              [] result = "push" -> b
              [] OTHER -> 0

\* a Game with one participant whose chips are followed, before its first round
BetInit ==
    /\ OwnerIdle
    /\ SharedIdle
    /\ CacheIdle
    /\ GameIdle
    /\ strategy \in Strategies
    /\ chips = StartChips
    /\ bet = 0
    /\ bet_round = 0
    /\ bet_pc = "place_bets"

\* Game.place_bets for the participant: the human is asked until place_bet
\* accepts the number typed; a bot's bet is calculated once (all its chips
\* if it has fewer than 10) and the round goes on whether or not place_bet
\* accepts it
place_bets(amount, percentage, risk_variation, variation) ==
    /\ bet_pc = "place_bets"
    /\ IF strategy = "human"
       THEN LET r == place_bet(chips, bet, amount)
            IN  /\ chips' = r.chips
                /\ bet' = r.bet
                /\ bet_pc' = IF r.ret THEN "play" ELSE "place_bets"
       ELSE LET calculated == calculate_bet(strategy, chips, percentage, risk_variation, variation)
                r == place_bet(chips, bet, IF chips < 10 THEN chips ELSE calculated)
            IN  /\ chips' = r.chips
                /\ bet' = r.bet
                /\ bet_pc' = "play"
    /\ UNCHANGED <<ownerVars, sharedVars, cacheVars, gameVars, strategy, bet_round>>

\* the rest of Game.play_round for the participant: insurance (offered to
\* the human when the dealer shows an ace), the turn (double_bet and
\* split_hand take the bet once more from the chips, surrender gives half
\* of it back), update_chips for the hand or the two split hands,
\* remove_bankrupt_players, and the bet is reset
play_out(insurance, choice, dealer_blackjack, result, result2) ==
    /\ bet_pc = "play"
    /\ insurance => strategy = "human"
    /\ choice = "surrender" => strategy = "human"
    /\ choice \in {"double", "split"} => can_double(chips, bet)
    /\ LET ins == IF insurance THEN place_insurance(chips, bet)
                  ELSE [chips |-> chips, insurance_bet |-> 0]
           doubles == choice = "double" /\ can_double(ins.chips, bet)
           splits == choice = "split" /\ can_double(ins.chips, bet)
           turn == IF doubles THEN [chips |-> ins.chips - bet, bet |-> bet + bet]
                   ELSE IF splits THEN [chips |-> ins.chips - bet, bet |-> bet]
                   ELSE [chips |-> ins.chips, bet |-> bet]
           insurance_winnings == IF dealer_blackjack /\ ins.insurance_bet > 0
                                 THEN ins.insurance_bet * 3 ELSE 0
           paid == IF choice = "surrender"
                   THEN turn.chips + turn.bet \div 2
                   ELSE IF splits
                   THEN turn.chips + insurance_winnings
                           + _process_payout(result, dealer_blackjack, turn.bet)
                           + _process_payout(result2, dealer_blackjack, turn.bet)
                   ELSE turn.chips + insurance_winnings
                           + _process_payout(result, dealer_blackjack, turn.bet)
       IN  /\ chips' = paid
           /\ bet' = 0
           /\ bet_round' = bet_round + 1
           /\ bet_pc' = IF paid < 10 THEN "removed"
                        ELSE IF bet_round' >= MaxBetRounds THEN "done"
                        ELSE "place_bets"
    /\ UNCHANGED <<ownerVars, sharedVars, cacheVars, gameVars, strategy>>

BetNext ==
    \/ \E amount \in BetInputs, percentage \in Percentages,
          risk_variation \in RiskVariation, variation \in UnpredictableVariation :
          place_bets(amount, percentage, risk_variation, variation)
    \/ \E insurance \in BOOLEAN, choice \in TurnChoices, dealer_blackjack \in BOOLEAN,
          result \in HandResults, result2 \in HandResults :
          play_out(insurance, choice, dealer_blackjack, result, result2)

SpecBets == BetInit /\ [][BetNext]_vars

\* C37: no participant's chips are ever negative, and every bet place_bets
\* leaves a participant with is at least 0 and at most the chips the
\* participant had before it (a bet place_bet has refused leaves the bet 0).
C37_BetsAndChipsNonNegative ==
    /\ [](chips >= 0)
    /\ [][(bet_pc = "place_bets" /\ bet_pc' = "play") => (0 <= bet' /\ bet' <= chips)]_vars

\* C37 violation: the human's bet of -2000 was accepted and the hand won,
\* which leaves the player with chips below 0
C37_NegativeChips ==
    /\ strategy = "human"
    /\ bet_round = 1
    /\ chips = StartChips + 2000 - 4000

\* a bot's calculated bet below 0 has been accepted
C37_NegativeBotBet ==
    /\ strategy = "unpredictable"
    /\ bet_pc = "play"
    /\ bet < 0

====
